---- MODULE Spec2Model ----
(***************************************************************************)
(* Crossword constraint-satisfaction solver: CrosswordCreator of            *)
(* crossword/generate.py.  A run builds the creator for one crossword,      *)
(* then executes solve(): enforce_node_consistency(), ac3(), backtrack({}). *)
(* Python sets iterate in an order the program does not control, so every   *)
(* iteration over a set is a nondeterministic choice of order.              *)
(***************************************************************************)
EXTENDS Integers, Sequences, FiniteSets, TLC

(***************************************************************************)
(* Bounds and input pools                                                   *)
(***************************************************************************)
\* largest vocabulary (number of words in the words file)
MaxVocab == 5

\* the pool the vocabularies are drawn from; a word is its letters in order
Lexicon ==
    {<<"A", "A">>, <<"A", "B">>, <<"B", "A">>, <<"B", "B">>,
     <<"A", "A", "B">>, <<"A", "B", "A">>, <<"B", "A", "A">>, <<"B", "B", "B">>}
Vocabularies == {V \in SUBSET Lexicon : Cardinality(V) <= MaxVocab}

ACROSS == "across"
DOWN == "down"

\* Variable(i, j, direction, length)
Variable(i, j, direction, length) ==
    [i |-> i, j |-> j, direction |-> direction, length |-> length]

\* the problem graphs: sets of variables as laid out on a grid
GraphEmpty == {}
GraphSingle == {Variable(0, 0, ACROSS, 2)}
GraphCross == {Variable(0, 0, ACROSS, 3), Variable(0, 1, DOWN, 2)}
GraphApart == {Variable(0, 0, ACROSS, 2), Variable(2, 0, ACROSS, 2)}
GraphStar == {Variable(0, 0, ACROSS, 3), Variable(0, 0, DOWN, 2),
              Variable(0, 2, DOWN, 2)}
GraphChain == {Variable(0, 0, ACROSS, 2), Variable(0, 1, DOWN, 3),
               Variable(2, 1, ACROSS, 2)}
Graphs == {GraphEmpty, GraphSingle, GraphCross, GraphApart, GraphStar,
           GraphChain}

(***************************************************************************)
(* State                                                                    *)
(***************************************************************************)
VARIABLES
    crossword,   \* self.crossword: [variables, words]
    domains,     \* self.domains: variable -> set of words
    pc,          \* position of the caller: start, node, ac3, arc, backtrack, done, idle
    arcs,        \* the deque of ac3()
    ac3Result,   \* return value of the last finished ac3(): "none", "True", "False"
    stack,       \* the active calls of backtrack(), outermost first
    result,      \* what solve() returned: [status, assignment]
    rerun,       \* TRUE once a pruning pass is being repeated
    snapshot,    \* the domains when the repeated pass started
    firstResult, \* what the first ac3() returned, kept across the repeated pass
    odv,         \* the call of order_domain_values made: {[var, assignment, out]}
    rev          \* the call of revise made by a caller: {[x, y, revised]}

vars == <<crossword, domains, pc, arcs, ac3Result, stack, result, rerun,
          snapshot, firstResult, odv, rev>>

(***************************************************************************)
(* Helpers                                                                  *)
(***************************************************************************)
\* every ordering of a finite set (an iteration order of a Python set)
Perms(S) ==
    {s \in [1..Cardinality(S) -> S] : \A a, b \in DOMAIN s : a # b => s[a] # s[b]}

\* character k (0-based, as Python indexes) of a word
Char(word, k) == word[k + 1]

\* the cells a variable covers, in order
Cells(v) ==
    [k \in 1..v.length |->
        <<v.i + (IF v.direction = DOWN THEN k - 1 ELSE 0),
          v.j + (IF v.direction = ACROSS THEN k - 1 ELSE 0)>>]

NoOverlap == <<>>

\* crossword.overlaps[x, y]: None, or the index pair of the shared cell
Overlaps(x, y) ==
    LET cx == Cells(x)
        cy == Cells(y)
        common == {p \in (DOMAIN cx) \X (DOMAIN cy) : cx[p[1]] = cy[p[2]]}
    IN  IF common = {} THEN NoOverlap
        ELSE LET p == CHOOSE q \in common : TRUE IN <<p[1] - 1, p[2] - 1>>

\* crossword.neighbors(var)
Neighbors(var) ==
    {v \in crossword.variables : v # var /\ Overlaps(v, var) # NoOverlap}

(***************************************************************************)
(* __init__                                                                 *)
(***************************************************************************)
NoAssignment == <<>>
Running == [status |-> "running", assignment |-> NoAssignment]

Init ==
    /\ \E g \in Graphs, V \in Vocabularies :
          /\ crossword = [variables |-> g, words |-> V]
          /\ domains = [var \in g |-> V]
    /\ pc = "start"
    /\ arcs = <<>>
    /\ ac3Result = "none"
    /\ stack = <<>>
    /\ result = Running
    /\ rerun = FALSE
    /\ snapshot = domains
    /\ firstResult = "none"
    /\ odv = {}
    /\ rev = {}

(***************************************************************************)
(* enforce_node_consistency                                                 *)
(***************************************************************************)
\* removes only the words that are too long
NodeConsistentTooLong(d) ==
    [var \in DOMAIN d |-> {word \in d[var] : ~(Len(word) > var.length)}]

NodeConsistent(d) ==
    [var \in DOMAIN d |-> {word \in d[var] : ~(Len(word) # var.length)}]

\* solve(): self.enforce_node_consistency()
EnforceNodeConsistency ==
    /\ pc = "start"
    /\ domains' = NodeConsistent(domains)
    /\ pc' = "node"
    /\ UNCHANGED <<crossword, arcs, ac3Result, stack, result, rerun, snapshot,
                   firstResult, odv, rev>>

\* a caller running enforce_node_consistency() a second time
EnforceNodeConsistencyAgain ==
    /\ pc = "node"
    /\ ~rerun
    /\ rerun' = TRUE
    /\ snapshot' = domains
    /\ domains' = NodeConsistent(domains)
    /\ pc' = "idle"
    /\ UNCHANGED <<crossword, arcs, ac3Result, stack, result, firstResult, odv, rev>>

(***************************************************************************)
(* revise, get_arc_queue, ac3                                               *)
(***************************************************************************)
\* keeps a word only when every word of y agrees with it
ReviseAll(d, x, y) ==
    IF Overlaps(x, y) = NoOverlap THEN d[x]
    ELSE {x_word \in d[x] :
             \A y_word \in d[y] :
                 Char(x_word, Overlaps(x, y)[1]) = Char(y_word, Overlaps(x, y)[2])}

\* x is given the words of y that a word of x supports
ReviseSwapped(d, x, y) ==
    IF Overlaps(x, y) = NoOverlap THEN d[x]
    ELSE {y_word \in d[y] :
             \E x_word \in d[x] :
                 Char(x_word, Overlaps(x, y)[1]) = Char(y_word, Overlaps(x, y)[2])}

\* the domain of x after revise(x, y) on domains d
Revise(d, x, y) ==
    IF Overlaps(x, y) = NoOverlap THEN d[x]
    ELSE LET overlaps_x == Overlaps(x, y)[1]
             overlaps_y == Overlaps(x, y)[2]
         IN  {x_word \in d[x] :
                 \E y_word \in d[y] :
                     Char(x_word, overlaps_x) = Char(y_word, overlaps_y)}

\* the queues built when the outer loop takes the variables in the order
\* vs: inner[v] holds the runs of arcs the inner loop can append for v
RECURSIVE ArcQueues(_, _)
ArcQueues(vs, inner) ==
    IF vs = <<>> THEN {<<>>}
    ELSE {run \o rest : run \in inner[Head(vs)], rest \in ArcQueues(Tail(vs), inner)}

\* get_arc_queue(): every queue the two nested set iterations can build
GetArcQueue ==
    UNION {ArcQueues(p, [var \in crossword.variables |->
                            {[m \in 1..Len(o) |-> <<var, o[m]>>] :
                                o \in Perms(Neighbors(var))}]) :
           p \in Perms(crossword.variables)}

\* ac3(): arcs = self.get_arc_queue()
Ac3Begin(again) ==
    /\ \E q \in GetArcQueue : arcs' = q
    /\ pc' = "ac3"
    /\ rerun' = again
    /\ snapshot' = domains
    /\ firstResult' = ac3Result
    /\ ac3Result' = "none"
    /\ UNCHANGED <<crossword, domains, stack, result, odv, rev>>

\* solve(): self.ac3()
Ac3Start ==
    /\ pc = "node"
    /\ ~rerun
    /\ Ac3Begin(FALSE)

\* a caller running ac3() a second time, right after the first
Ac3Again ==
    /\ pc = "arc"
    /\ ~rerun
    /\ Ac3Begin(TRUE)

\* the emptiness test left out
DomainEmptiedNever(domain) == FALSE

\* nothing is appended after a revision
RequeueNone(x, y) == {<<>>}

\* the neighbor y appended as well
RequeueWithY(x, y) ==
    {[k \in 1..Len(p) |-> <<p[k], x>>] : p \in Perms(Neighbors(x))}

\* the front arc read but left in the deque
PeekLeft(queue) == queue

\* the deque after arcs.popleft()
PopLeft(queue) == Tail(queue)

\* `len(self.domains[x]) == 0`, on the domain revise left
DomainEmptied(domain) == Cardinality(domain) = 0

\* what the loop body appends after a revision of x against y
Requeue(x, y) ==
    {[k \in 1..Len(p) |-> <<p[k], x>>] : p \in Perms(Neighbors(x) \ {y})}

Ac3Return(value) ==
    /\ ac3Result' = value
    /\ pc' = IF rerun THEN "idle" ELSE "arc"

\* the loop body for the arc (x, y), newx being x's domain after revise(x, y);
\* the deque is a local, gone when ac3 returns
Ac3Body(x, y, newx) ==
    /\ domains' = [domains EXCEPT ![x] = newx]
    /\ IF newx # domains[x]
       THEN IF DomainEmptied(newx)
            THEN /\ arcs' = <<>>
                 /\ Ac3Return("False")
            ELSE /\ \E added \in Requeue(x, y) : arcs' = PopLeft(arcs) \o added
                 /\ UNCHANGED <<ac3Result, pc>>
       ELSE /\ arcs' = PopLeft(arcs)
            /\ UNCHANGED <<ac3Result, pc>>

\* one iteration of `while arcs`
Ac3Step ==
    /\ pc = "ac3"
    /\ arcs # <<>>
    /\ Ac3Body(Head(arcs)[1], Head(arcs)[2],
               Revise(domains, Head(arcs)[1], Head(arcs)[2]))
    /\ UNCHANGED <<crossword, stack, result, rerun, snapshot, firstResult, odv, rev>>

\* `while arcs` ends: return True
Ac3Done ==
    /\ pc = "ac3"
    /\ arcs = <<>>
    /\ Ac3Return("True")
    /\ UNCHANGED <<crossword, domains, arcs, stack, result, rerun, snapshot,
                   firstResult, odv, rev>>

(***************************************************************************)
(* consistent, eliminate_values, order_domain_values,                       *)
(* select_unassigned_variable                                               *)
(***************************************************************************)
Values(assignment) == {assignment[var] : var \in DOMAIN assignment}

\* assignment_complete / the first test of backtrack
AssignmentComplete(assignment) ==
    Cardinality(DOMAIN assignment) = Cardinality(crossword.variables)

\* the test of the overlapping characters left out
ConsistentNoConflict(assignment) ==
    /\ ~(Cardinality(DOMAIN assignment) > Cardinality(Values(assignment)))
    /\ \A var \in DOMAIN assignment : ~(var.length # Len(assignment[var]))

\* the test for distinct values left out
ConsistentNoDistinct(assignment) ==
    /\ \A var \in DOMAIN assignment : ~(var.length # Len(assignment[var]))
    /\ \A var \in DOMAIN assignment :
          \A neighbor \in Neighbors(var) :
              neighbor \in DOMAIN assignment =>
                  ~(Char(assignment[var], Overlaps(var, neighbor)[1])
                      # Char(assignment[neighbor], Overlaps(var, neighbor)[2]))

Consistent(assignment) ==
    /\ ~(Cardinality(DOMAIN assignment) > Cardinality(Values(assignment)))
    /\ \A var \in DOMAIN assignment : ~(var.length # Len(assignment[var]))
    /\ \A var \in DOMAIN assignment :
          \A neighbor \in Neighbors(var) :
              neighbor \in DOMAIN assignment =>
                  LET i == Overlaps(var, neighbor)[1]
                      j == Overlaps(var, neighbor)[2]
                  IN  ~(Char(assignment[var], i) # Char(assignment[neighbor], j))

\* the set `eliminated` when the loop over the unassigned neighbors ends
Eliminated(var, option, assignment) ==
    UNION {{value \in domains[neighbor] :
               Char(option, Overlaps(var, neighbor)[1])
                   # Char(value, Overlaps(var, neighbor)[2])} :
           neighbor \in Neighbors(var) \ DOMAIN assignment}

EliminateValues(var, option, assignment) ==
    Cardinality(Eliminated(var, option, assignment))

\* sorted(domain_values, key=...): every list a stable sort of the set can give
OrderDomainValues(var, assignment) ==
    {s \in Perms(domains[var]) :
        \A a, b \in DOMAIN s :
            a < b => EliminateValues(var, s[a], assignment)
                        <= EliminateValues(var, s[b], assignment)}

\* the degree compared with the wrong sign
KeyLessLowDegree(d, a, b) ==
    \/ Cardinality(d[a]) < Cardinality(d[b])
    \/ /\ Cardinality(d[a]) = Cardinality(d[b])
       /\ Cardinality(Neighbors(a)) < Cardinality(Neighbors(b))

\* the key of min(): (len(domain), -len(neighbors)), compared as tuples
KeyLess(d, a, b) ==
    \/ Cardinality(d[a]) < Cardinality(d[b])
    \/ /\ Cardinality(d[a]) = Cardinality(d[b])
       /\ -Cardinality(Neighbors(a)) < -Cardinality(Neighbors(b))

\* the variables min() can return: min keeps the first minimum it meets
SelectUnassignedVariable(d, assignment) ==
    LET unassigned == DOMAIN d \ DOMAIN assignment
    IN  {var \in unassigned : \A other \in unassigned : ~KeyLess(d, other, var)}

(***************************************************************************)
(* backtrack                                                                *)
(***************************************************************************)
Some(assignment) == [status |-> "some", assignment |-> assignment]
None == [status |-> "none", assignment |-> NoAssignment]

Extend(assignment, variable, word) ==
    [var \in DOMAIN assignment \cup {variable} |->
        IF var = variable THEN word ELSE assignment[var]]

\* new_assignment is the caller's dict itself, not a copy
CallerAssignmentAliased(assignment, variable, word) ==
    Extend(assignment, variable, word)

\* the caller's `assignment` once new_assignment, a copy, was extended
CallerAssignment(assignment, variable, word) == assignment

\* backtrack(assignment) is entered below the calls in stk.  A complete
\* assignment is returned, and every caller hands a result that is not None
\* straight to its own caller, so solve() returns it.
Call(stk, assignment) ==
    IF AssignmentComplete(assignment)
    THEN /\ result' = Some(assignment)
         /\ stack' = <<>>
         /\ pc' = "done"
    ELSE /\ \E variable \in SelectUnassignedVariable(domains, assignment) :
               stack' = Append(stk, [assignment |-> assignment,
                                     variable |-> variable,
                                     todo |-> domains[variable]])
         /\ pc' = "backtrack"
         /\ UNCHANGED result

\* solve(): return self.backtrack(dict())
BacktrackStart ==
    /\ pc = "arc"
    /\ ~rerun
    /\ Call(<<>>, NoAssignment)
    /\ UNCHANGED <<crossword, domains, arcs, ac3Result, rerun, snapshot,
                   firstResult, odv, rev>>

\* one iteration of `for word in self.domains[variable]`
BacktrackTry ==
    /\ pc = "backtrack"
    /\ LET top == stack[Len(stack)]
       IN  \E word \in top.todo :
               LET new_assignment == Extend(top.assignment, top.variable, word)
                   rest == [stack EXCEPT
                              ![Len(stack)].todo = top.todo \ {word},
                              ![Len(stack)].assignment =
                                  CallerAssignment(top.assignment, top.variable, word)]
               IN  IF Consistent(new_assignment)
                   THEN Call(rest, new_assignment)
                   ELSE /\ stack' = rest
                        /\ UNCHANGED <<pc, result>>
    /\ UNCHANGED <<crossword, domains, arcs, ac3Result, rerun, snapshot,
                   firstResult, odv, rev>>

\* the loop is exhausted: return None to the caller
BacktrackFail ==
    /\ pc = "backtrack"
    /\ stack[Len(stack)].todo = {}
    /\ stack' = SubSeq(stack, 1, Len(stack) - 1)
    /\ IF Len(stack) = 1
       THEN /\ result' = None
            /\ pc' = "done"
       ELSE UNCHANGED <<pc, result>>
    /\ UNCHANGED <<crossword, domains, arcs, ac3Result, rerun, snapshot,
                   firstResult, odv, rev>>

\* the assignments a caller passes: consistent, values from the domains
Assignments(S) ==
    {a \in UNION {[T -> crossword.words] : T \in SUBSET S} :
        /\ \A var \in DOMAIN a : a[var] \in domains[var]
        /\ Consistent(a)}

\* a caller running order_domain_values(var, assignment)
OrderDomainValuesCall ==
    /\ pc \in {"node", "arc"}
    /\ ~rerun
    /\ \E var \in crossword.variables :
       \E assignment \in Assignments(crossword.variables \ {var}) :
       \E out \in OrderDomainValues(var, assignment) :
           odv' = {[var |-> var, assignment |-> assignment, out |-> out]}
    /\ pc' = "idle"
    /\ UNCHANGED <<crossword, domains, arcs, ac3Result, stack, result, rerun,
                   snapshot, firstResult, rev>>

\* a caller running revise(x, y) on two variables of the crossword
ReviseCall ==
    /\ pc \in {"node", "arc"}
    /\ ~rerun
    /\ \E x \in crossword.variables : \E y \in crossword.variables \ {x} :
           /\ domains' = [domains EXCEPT ![x] = Revise(domains, x, y)]
           /\ rev' = {[x |-> x, y |-> y, revised |-> Revise(domains, x, y) # domains[x]]}
    /\ snapshot' = domains
    /\ pc' = "idle"
    /\ UNCHANGED <<crossword, arcs, ac3Result, stack, result, rerun, firstResult,
                   odv>>

Next ==
    \/ EnforceNodeConsistency
    \/ EnforceNodeConsistencyAgain
    \/ Ac3Start
    \/ Ac3Again
    \/ Ac3Step
    \/ Ac3Done
    \/ BacktrackStart
    \/ BacktrackTry
    \/ BacktrackFail
    \/ OrderDomainValuesCall
    \/ ReviseCall

Spec == Init /\ [][Next]_vars

\* solve() alone, run to its end: the program is sequential and takes its
\* next step whenever it has one
SolveNext ==
    \/ EnforceNodeConsistency
    \/ Ac3Start
    \/ Ac3Step
    \/ Ac3Done
    \/ BacktrackStart
    \/ BacktrackTry
    \/ BacktrackFail

SolveSpec == Init /\ [][SolveNext]_vars /\ WF_vars(SolveNext)

(***************************************************************************)
(* Properties                                                               *)
(***************************************************************************)
\* the words of x and y agree at the cell the two variables share
Agree(x, x_word, y, y_word) ==
    \/ Overlaps(x, y) = NoOverlap
    \/ /\ Overlaps(x, y)[1] < Len(x_word)
       /\ Overlaps(x, y)[2] < Len(y_word)
       /\ x_word[Overlaps(x, y)[1] + 1] = y_word[Overlaps(x, y)[2] + 1]

\* a is a complete fill of the grid: a vocabulary word of the right length
\* for every variable, no word used twice, crossing letters equal
IsSolution(a) ==
    /\ DOMAIN a = crossword.variables
    /\ \A x \in DOMAIN a : a[x] \in crossword.words /\ Len(a[x]) = x.length
    /\ \A x, y \in DOMAIN a : x # y => a[x] # a[y] /\ Agree(x, a[x], y, a[y])

Solvable == \E a \in [crossword.variables -> crossword.words] : IsSolution(a)

Pruned == \E var \in DOMAIN domains : domains[var] # crossword.words

\* C1: an assignment returned by solve() satisfies consistent(), gives every
\* variable exactly one vocabulary word, and uses no word for two variables.
C1_ReturnedAssignmentIsSolution ==
    (pc = "done" /\ result.status = "some") =>
        /\ Consistent(result.assignment)
        /\ IsSolution(result.assignment)

C1_Witness ==
    /\ pc = "done"
    /\ result.status = "some"
    /\ Cardinality(crossword.variables) = 3
    /\ Cardinality(crossword.words) = 3

\* C2: when some complete assignment of vocabulary words is consistent,
\* solve() returns an assignment, not None.
C2_SolvableIsSolved ==
    (pc = "done" /\ Solvable) => result.status = "some"

C2_Witness ==
    /\ pc = "done"
    /\ Solvable
    /\ Pruned
    /\ ac3Result = "True"
    /\ \E var \in crossword.variables : Neighbors(var) # {}

\* C3: a domain emptied by a step of ac3() makes ac3() return False, and
\* after ac3() returned False solve() returns None.
C3_EmptiedDomainFails ==
    /\ [][(pc = "ac3" /\ \E var \in DOMAIN domains :
                             domains[var] # {} /\ domains'[var] = {})
            => ac3Result' = "False"]_vars
    /\ []((pc = "done" /\ ac3Result = "False") => result = None)

C3_Witness ==
    /\ pc = "done"
    /\ ac3Result = "False"
    /\ result = None

\* every word of x's domain has a word of y's domain agreeing at the overlap
ArcConsistent(x, y) ==
    \A w \in domains[x] : \E v \in domains[y] : Agree(x, w, y, v)

\* C4: after ac3() returned True every ordered pair of overlapping
\* variables is arc consistent.
C4_Ac3TrueIsArcConsistent ==
    ac3Result = "True" =>
        \A x \in crossword.variables : \A y \in Neighbors(x) : ArcConsistent(x, y)

C4_Witness ==
    /\ ac3Result = "True"
    /\ pc = "arc"
    /\ domains # snapshot
    /\ \A var \in crossword.variables : domains[var] # {}
    /\ Cardinality(crossword.variables) = 3

\* C5: from the return of enforce_node_consistency() on, every word in every
\* domain has the length of its variable.
C5_DomainsNodeConsistent ==
    pc # "start" =>
        \A var \in DOMAIN domains : \A word \in domains[var] : Len(word) = var.length

C5_Witness ==
    /\ pc = "backtrack"
    /\ Len(stack) = 2
    /\ \E var \in DOMAIN domains : domains[var] # {} /\ domains[var] # crossword.words

\* the domains as node consistency alone leaves them
NodePruned ==
    [var \in crossword.variables |->
        {word \in crossword.words : Len(word) = var.length}]

\* C6 as stated: a repeated enforce_node_consistency() or ac3() changes no
\* domain, whatever the first ac3() returned.
C6_RepeatedPruningChangesNothing ==
    rerun => domains = snapshot

\* C6 amended: a repeated enforce_node_consistency() changes no domain, and a
\* repeated ac3() changes no domain when the first ac3() returned True.
C6_RepeatedPruningAfterSuccess ==
    (rerun /\ firstResult # "False") => domains = snapshot

C6_Witness ==
    /\ rerun
    /\ pc = "idle"
    /\ firstResult = "True"
    /\ ac3Result = "True"
    /\ domains # NodePruned
    /\ \A var \in crossword.variables : domains[var] # {}

\* one run of solve() with the iteration orders fixed
RefQueue == CHOOSE q \in GetArcQueue : TRUE

RECURSIVE RefAc3(_, _)
RefAc3(d, queue) ==
    IF queue = <<>> THEN d
    ELSE LET x == Head(queue)[1]
             y == Head(queue)[2]
             newx == Revise(d, x, y)
             newd == [d EXCEPT ![x] = newx]
         IN  IF newx = d[x] THEN RefAc3(d, Tail(queue))
             ELSE IF DomainEmptied(newx) THEN newd
             ELSE RefAc3(newd, Tail(queue) \o (CHOOSE added \in Requeue(x, y) : TRUE))

RECURSIVE RefBacktrack(_, _)
RefBacktrack(d, assignment) ==
    IF AssignmentComplete(assignment) THEN TRUE
    ELSE LET variable == CHOOSE var \in SelectUnassignedVariable(d, assignment) : TRUE
         IN  \E word \in d[variable] :
                 /\ Consistent(Extend(assignment, variable, word))
                 /\ RefBacktrack(d, Extend(assignment, variable, word))

RefOutcome ==
    IF RefBacktrack(RefAc3(NodeConsistent([var \in crossword.variables |->
                                             crossword.words]), RefQueue),
                    NoAssignment)
    THEN "some" ELSE "none"

\* C7: whatever the iteration orders, solve() succeeds exactly when the run
\* with the fixed orders succeeds on the same crossword.
C7_OutcomeIndependentOfOrder ==
    pc = "done" => result.status = RefOutcome

C7_Witness ==
    /\ pc = "done"
    /\ result.status = "none"
    /\ ac3Result = "True"
    /\ Cardinality(crossword.variables) = 3
    /\ \A var \in crossword.variables : domains[var] # {}

\* C8: ac3() returns True exactly when no domain is empty at its return.
C8_Ac3ResultTellsEmptyDomains ==
    ac3Result # "none" =>
        (ac3Result = "True" <=> \A var \in DOMAIN domains : domains[var] # {})

\* the score of C9: neighbor by neighbor, the words of the neighbor's
\* domain that disagree with the option at the overlap, added up
RECURSIVE SumOverNeighbors(_, _, _)
SumOverNeighbors(var, option, S) ==
    IF S = {} THEN 0
    ELSE LET n == CHOOSE m \in S : TRUE
         IN  Cardinality({value \in domains[n] : ~Agree(var, option, n, value)})
                 + SumOverNeighbors(var, option, S \ {n})

PerNeighborScore(var, option, assignment) ==
    SumOverNeighbors(var, option, Neighbors(var) \ DOMAIN assignment)

\* C9: order_domain_values returns every word of the domain once, ascending
\* in the per-neighbor score (a word ruled out for two neighbors counts twice).
C9_OrderedByPerNeighborScore ==
    \A c \in odv :
        /\ Len(c.out) = Cardinality(domains[c.var])
        /\ {c.out[k] : k \in DOMAIN c.out} = domains[c.var]
        /\ \A a, b \in DOMAIN c.out :
              a < b => PerNeighborScore(c.var, c.out[a], c.assignment)
                          <= PerNeighborScore(c.var, c.out[b], c.assignment)

\* v is a right answer of select_unassigned_variable for the assignment
MrvThenDegree(v, assignment) ==
    LET unassigned == crossword.variables \ DOMAIN assignment
    IN  /\ v \in unassigned
        /\ \A u \in unassigned :
              /\ Cardinality(domains[u]) >= Cardinality(domains[v])
              /\ Cardinality(domains[u]) = Cardinality(domains[v])
                    => Cardinality(Neighbors(u)) <= Cardinality(Neighbors(v))

\* C10: the variable select_unassigned_variable returns is unassigned, has a
\* smallest domain among the unassigned, and among those of its domain size
\* has the most neighbors: for the calls backtrack made, and for every
\* incomplete assignment it could be passed once ac3() has returned.
C10_SelectsMrvThenDegree ==
    /\ \A k \in DOMAIN stack : MrvThenDegree(stack[k].variable, stack[k].assignment)
    /\ pc = "arc" =>
          \A a \in Assignments(crossword.variables) :
              ~AssignmentComplete(a) =>
                  /\ SelectUnassignedVariable(domains, a) # {}
                  /\ \A v \in SelectUnassignedVariable(domains, a) : MrvThenDegree(v, a)

C10_Witness ==
    /\ pc = "backtrack"
    /\ \E k \in DOMAIN stack :
          \E u \in crossword.variables \ DOMAIN stack[k].assignment :
              /\ Cardinality(domains[u]) = Cardinality(domains[stack[k].variable])
              /\ Cardinality(domains[u]) > 1
              /\ Cardinality(Neighbors(u)) < Cardinality(Neighbors(stack[k].variable))

\* C11: backtrack tries the words of the selected variable in the order of
\* order_domain_values: the word tried in a step of the loop has no higher
\* score than any word of the domain still to be tried.
C11_TriedInHeuristicOrder ==
    [][(pc = "backtrack" /\ Len(stack') >= Len(stack)
            /\ stack'[Len(stack)].todo # stack[Len(stack)].todo)
        => LET frame == stack[Len(stack)]
               left == stack'[Len(stack)].todo
           IN  \A word \in frame.todo \ left : \A later \in left :
                   EliminateValues(frame.variable, word, frame.assignment)
                       <= EliminateValues(frame.variable, later, frame.assignment)]_vars

\* C12: revise(x, y) leaves in x's domain exactly the words that some word
\* of y's domain agrees with at the overlap, changes x's domain not at all
\* without an overlap, changes no other domain, and returns True exactly
\* when it removed a word.
C12_ReviseKeepsSupportedWords ==
    \A c \in rev :
        /\ Overlaps(c.x, c.y) # NoOverlap =>
              domains[c.x] =
                  {w \in snapshot[c.x] :
                      \E v \in snapshot[c.y] :
                          w[Overlaps(c.x, c.y)[1] + 1] = v[Overlaps(c.x, c.y)[2] + 1]}
        /\ Overlaps(c.x, c.y) = NoOverlap => domains[c.x] = snapshot[c.x]
        /\ \A var \in crossword.variables \ {c.x} : domains[var] = snapshot[var]
        /\ c.revised <=> (snapshot[c.x] \ domains[c.x] # {})

C12_Witness ==
    \E c \in rev :
        /\ c.revised
        /\ domains[c.x] # {}
        /\ domains[c.y] # {}
        /\ Overlaps(c.x, c.y) # NoOverlap

\* revise called on two variables that share no cell
C12_WitnessNoOverlap ==
    \E c \in rev : Overlaps(c.x, c.y) = NoOverlap /\ ~c.revised /\ domains[c.x] # {}

\* C13: an iteration of the ac3 loop revises the arc at the front of the
\* worklist and removes it; the other arcs keep their order; behind them it
\* appends (z, x) once for every neighbor z of x other than y when the
\* revision removed a word and left x's domain non-empty, and nothing else.
C13_FifoAndRequeue ==
    [][(pc = "ac3" /\ arcs # <<>> /\ pc' = "ac3")
        => LET x == Head(arcs)[1]
               y == Head(arcs)[2]
               expected == {<<z, x>> : z \in Neighbors(x) \ {y}}
           IN  /\ \A var \in crossword.variables \ {x} : domains'[var] = domains[var]
               /\ domains'[x] = {w \in domains[x] :
                                    \E v \in domains[y] : Agree(x, w, y, v)}
               /\ Len(arcs') >= Len(arcs) - 1
               /\ SubSeq(arcs', 1, Len(arcs) - 1) = Tail(arcs)
               /\ LET added == SubSeq(arcs', Len(arcs), Len(arcs'))
                  IN  IF domains'[x] # domains[x] /\ domains'[x] # {}
                      THEN /\ {added[k] : k \in DOMAIN added} = expected
                           /\ Len(added) = Cardinality(expected)
                      ELSE added = <<>>]_vars

\* an arc is in the worklist twice: it was appended while still waiting
C13_Witness ==
    /\ pc = "ac3"
    /\ domains # snapshot
    /\ \E a, b \in DOMAIN arcs : a < b /\ arcs[a] = arcs[b]

\* C14: no step adds a word to a domain, and every domain is part of the
\* vocabulary.
C14_DomainsOnlyShrink ==
    /\ [][\A var \in crossword.variables : domains'[var] \subseteq domains[var]]_vars
    /\ [](\A var \in crossword.variables : domains[var] \subseteq crossword.words)

\* node consistency removed a word, ac3 removed another, the search runs
C14_Witness ==
    /\ pc = "backtrack"
    /\ \E var \in crossword.variables :
          /\ NodePruned[var] # crossword.words
          /\ domains[var] # NodePruned[var]
          /\ domains[var] # {}

\* C15: a step of backtrack changes no domain, and leaves the assignment and
\* the variable of every call that stays active as they were; a new call
\* gets the caller's assignment extended at the caller's variable only.
C15_BacktrackIsBranchLocal ==
    [][(pc \in {"arc", "backtrack"} /\ pc' \in {"backtrack", "done"})
        => /\ domains' = domains
           /\ \A k \in DOMAIN stack \cap DOMAIN stack' :
                 /\ stack'[k].assignment = stack[k].assignment
                 /\ stack'[k].variable = stack[k].variable
           /\ Len(stack') > Len(stack) /\ stack # <<>> =>
                 LET caller == stack[Len(stack)]
                     callee == stack'[Len(stack')]
                 IN  /\ DOMAIN callee.assignment =
                            DOMAIN caller.assignment \cup {caller.variable}
                     /\ \A var \in DOMAIN caller.assignment :
                            callee.assignment[var] = caller.assignment[var]]_vars

\* a recursive call has failed: a word that passed consistent() is behind
\* the top call, which goes on with words still to try
C15_Witness ==
    /\ pc = "backtrack"
    /\ Len(stack) >= 1
    /\ LET top == stack[Len(stack)]
       IN  /\ top.todo # {}
           /\ \E word \in domains[top.variable] \ top.todo :
                  \A x \in DOMAIN top.assignment :
                      /\ top.assignment[x] # word
                      /\ Agree(x, top.assignment[x], top.variable, word)

\* C16: every run of solve() comes to its end: ac3() has returned True or
\* False, and solve() has returned a complete assignment or None.
C16_SolveTerminates ==
    <>(/\ pc = "done"
       /\ ac3Result \in {"True", "False"}
       /\ \/ result = None
          \/ /\ result.status = "some"
             /\ DOMAIN result.assignment = crossword.variables)

C16_Witness ==
    /\ pc = "done"
    /\ result.status = "some"
    /\ ac3Result = "True"
    /\ domains # snapshot
    /\ Cardinality(crossword.variables) = 3

\* an assignment of words of the vocabulary, each from its variable's domain,
\* no word used twice, overlapping variables agreeing at their shared cell
SearchInvariant(a) ==
    \A v \in DOMAIN a :
        /\ v \in crossword.variables
        /\ a[v] \in crossword.words
        /\ a[v] \in domains[v]
        /\ \A u \in DOMAIN a \ {v} :
              /\ a[u] # a[v]
              /\ Agree(u, a[u], v, a[v])

\* C17: every assignment a call of backtrack was entered with, the calls still
\* open and the one that returned its assignment, assigns words of the
\* vocabulary taken from the variable's domain, pairwise distinct, and agreeing
\* at the shared cell of every two assigned variables that overlap.
C17_SearchInvariant ==
    /\ \A k \in 1..Len(stack) : SearchInvariant(stack[k].assignment)
    /\ result.status = "some" => SearchInvariant(result.assignment)

\* an open call holds two overlapping assigned variables, after its caller
\* turned down a word of the domain that clashes at the shared cell
C17_Witness ==
    /\ pc = "backtrack"
    /\ Len(stack) >= 3
    /\ LET a == stack[Len(stack)].assignment
           caller == stack[Len(stack) - 1]
       IN  /\ \E u \in DOMAIN a : \E v \in DOMAIN a \ {u} : Overlaps(u, v) # NoOverlap
           /\ \E word \in domains[caller.variable] \ caller.todo :
                  \E u \in DOMAIN caller.assignment :
                      ~Agree(u, caller.assignment[u], caller.variable, word)

\* C18: node consistency and ac3 never remove a word that a solution gives
\* to the variable: at every step of the pruning and when ac3() has returned,
\* for every complete consistent assignment of vocabulary words each
\* variable's word is in its domain, and when such an assignment exists
\* ac3() has not returned False.
C18_PruningPreservesSolutions ==
    pc \in {"node", "ac3", "arc"} =>
        /\ \A a \in [crossword.variables -> crossword.words] :
              IsSolution(a) =>
                  \A var \in crossword.variables : a[var] \in domains[var]
        /\ ac3Result = "False" => ~Solvable

\* ac3 has returned on a solvable crossword after revise removed a word
C18_Witness ==
    /\ pc = "arc"
    /\ ac3Result = "True"
    /\ Solvable
    /\ domains # NodePruned
    /\ \E var \in crossword.variables : Neighbors(var) # {}

\* the arc (x, y) is waiting in the worklist
InWorklist(x, y) == \E k \in 1..Len(arcs) : arcs[k] = <<x, y>>

\* C19: at the start of every iteration of ac3()'s loop, begun with the
\* default worklist, each ordered pair (x, y) of neighboring variables that
\* is not in the worklist is arc consistent; leaving (y, x) out after
\* revise(x, y) does not break this.
C19_Ac3LoopInvariant ==
    pc = "ac3" =>
        \A x \in crossword.variables : \A y \in Neighbors(x) :
            ~InWorklist(x, y) => ArcConsistent(x, y)

\* the loop is under way: revise(x, y) has removed a word of x, and neither
\* (x, y) nor (y, x) is in the worklist, which still holds other arcs
C19_Witness ==
    /\ pc = "ac3"
    /\ arcs # <<>>
    /\ \E x \in crossword.variables : \E y \in Neighbors(x) :
           /\ domains[x] # NodePruned[x]
           /\ domains[y] = NodePruned[y]
           /\ ~InWorklist(x, y)
           /\ ~InWorklist(y, x)
====
